---- MODULE Spec2Model ----
(***************************************************************************)
(* rd450x-fan-control (src/main.go): a single-shot command-line program    *)
(* that reads and sets fan PWM duty cycles through the external ipmitool.  *)
(*                                                                         *)
(* Go strings are modelled as sequences of one-character strings, so that  *)
(* parsing, trimming, case folding and formatting are computed the way the *)
(* standard library computes them.  The external tool is the environment:  *)
(* each invocation either fails or returns a text drawn from a bounded set.*)
(***************************************************************************)
EXTENDS Integers, Sequences, FiniteSets, TLC

\* ------------------------------------------------------------------------
\* Go standard library (strings, strconv, fmt) on character sequences
\* ------------------------------------------------------------------------

Digits == <<"0","1","2","3","4","5","6","7","8","9">>
LowerLetters == <<"a","b","c","d","e","f","g","h","i","j","k","l","m",
                  "n","o","p","q","r","s","t","u","v","w","x","y","z">>
UpperLetters == <<"A","B","C","D","E","F","G","H","I","J","K","L","M",
                  "N","O","P","Q","R","S","T","U","V","W","X","Y","Z">>

Range(s) == {s[i] : i \in 1..Len(s)}
IndexOf(c, s) == CHOOSE i \in 1..Len(s) : s[i] = c
MinOf(S) == CHOOSE x \in S : \A y \in S : x <= y
MaxOf(S) == CHOOSE x \in S : \A y \in S : y <= x

\* strings.ToLower / strings.ToUpper (ASCII letters)
LowerOf == [c \in Range(UpperLetters) |-> LowerLetters[IndexOf(c, UpperLetters)]]
UpperOf == [c \in Range(LowerLetters) |-> UpperLetters[IndexOf(c, LowerLetters)]]
ToLowerChar(c) == IF c \in DOMAIN LowerOf THEN LowerOf[c] ELSE c
ToUpperChar(c) == IF c \in DOMAIN UpperOf THEN UpperOf[c] ELSE c
ToLower(s) == SubSeq([i \in 1..Len(s) |-> ToLowerChar(s[i])], 1, Len(s))
ToUpper(s) == SubSeq([i \in 1..Len(s) |-> ToUpperChar(s[i])], 1, Len(s))

\* unicode.IsSpace on the characters the model uses
IsSpace(c) == c \in {" ", "\t", "\n", "\r"}

\* strings.TrimSpace
TrimSpace(s) ==
  LET keep == {i \in 1..Len(s) : ~IsSpace(s[i])}
  IN IF keep = {} THEN <<>>
     ELSE SubSeq(s, MinOf(keep),
                 CHOOSE i \in keep : \A j \in (i + 1)..Len(s) : IsSpace(s[j]))

\* strings.Contains
Contains(s, sub) ==
  \E i \in 1..(Len(s) - Len(sub) + 1) : \A j \in 1..Len(sub) : s[i + j - 1] = sub[j]

\* strings.Split with a one-character separator
RECURSIVE Split(_, _)
Split(s, sep) ==
  LET at == {i \in 1..Len(s) : s[i] = sep}
  IN IF at = {} THEN <<s>>
     ELSE <<SubSeq(s, 1, MinOf(at) - 1)>>
            \o Split(SubSeq(s, MinOf(at) + 1, Len(s)), sep)

\* strings.Fields
RECURSIVE Fields(_)
Fields(s) ==
  LET keep == {i \in 1..Len(s) : ~IsSpace(s[i])}
  IN IF keep = {} THEN <<>>
     ELSE LET a == MinOf(keep)
              sp == {i \in a..Len(s) : IsSpace(s[i])}
              b == IF sp = {} THEN Len(s) + 1 ELSE MinOf(sp)
          IN <<SubSeq(s, a, b - 1)>> \o Fields(SubSeq(s, b, Len(s)))

\* len(s): the bytes of the UTF-8 text; the degree sign takes two, every
\* other character of the model's alphabet one
ByteLen(s) == Len(s) + Cardinality({i \in 1..Len(s) : s[i] = "deg"})

\* strings.TrimSuffix
TrimSuffix(s, suf) ==
  IF Len(s) >= Len(suf) /\ SubSeq(s, Len(s) - Len(suf) + 1, Len(s)) = suf
  THEN SubSeq(s, 1, Len(s) - Len(suf)) ELSE s

\* The value of a digit character in bases up to 36 (strconv's lower(c) rule)
DigitValue(c) ==
  IF c \in Range(Digits) THEN IndexOf(c, Digits) - 1
  ELSE IF ToLowerChar(c) \in Range(LowerLetters)
       THEN IndexOf(ToLowerChar(c), LowerLetters) + 9
       ELSE 36

\* ------------------------------------------------------------------------
\* Natural numbers of any size: sequences of decimal digit values, most
\* significant first, without leading zeros (zero is <<0>>).  int64 and
\* float64 do not fit the integers of the model checker.
\* ------------------------------------------------------------------------

Zeros(n) == [i \in 1..n |-> 0]
Norm(ds) ==
  LET nz == {i \in 1..Len(ds) : ds[i] # 0}
  IN IF nz = {} THEN <<0>> ELSE SubSeq(ds, MinOf(nz), Len(ds))
NatLess(a, b) ==
  \/ Len(a) < Len(b)
  \/ /\ Len(a) = Len(b)
     /\ \E i \in 1..Len(a) : a[i] < b[i] /\ \A j \in 1..(i - 1) : a[j] = b[j]
NatLeq(a, b) == a = b \/ NatLess(a, b)
Odd(n) == n[Len(n)] % 2 = 1

\* 2n: a digit's carry is 1 exactly when the digit is 5 or more
Double(n) ==
  Norm([i \in 1..(Len(n) + 1) |->
          ((IF i = 1 THEN 0 ELSE 2 * n[i - 1])
           + (IF i <= Len(n) /\ n[i] >= 5 THEN 1 ELSE 0)) % 10])

\* n div 2: the remainder carried into a digit is the parity of the one before
Half(n) ==
  Norm([i \in 1..Len(n) |->
          ((IF i = 1 THEN 0 ELSE 10 * (n[i - 1] % 2)) + n[i]) \div 2])

\* n * 2^k and n div 2^k, the k steps split in two halves
RECURSIVE DoubleN(_, _)
DoubleN(n, k) ==
  IF k = 0 \/ n = <<0>> THEN n
  ELSE IF k = 1 THEN Double(n)
  ELSE LET h == DoubleN(n, k \div 2) IN DoubleN(h, k - k \div 2)
RECURSIVE HalfN(_, _)
HalfN(n, k) ==
  IF k = 0 \/ n = <<0>> THEN n
  ELSE IF k = 1 THEN Half(n)
  ELSE LET h == HalfN(n, k \div 2) IN HalfN(h, k - k \div 2)

\* x + y + c for digit sequences of one length: the low half first, its carry
\* into the high half
AddJoin(hi, lo) == [carry |-> hi.carry, ds |-> hi.ds \o lo.ds]
RECURSIVE AddCarry(_, _, _)
AddCarry(x, y, c) ==
  IF Len(x) = 1
  THEN [carry |-> (x[1] + y[1] + c) \div 10, ds |-> <<(x[1] + y[1] + c) % 10>>]
  ELSE LET k == Len(x) \div 2
           lo == AddCarry(SubSeq(x, k + 1, Len(x)), SubSeq(y, k + 1, Len(y)), c)
       IN IF lo.carry = 0
          THEN AddJoin(AddCarry(SubSeq(x, 1, k), SubSeq(y, 1, k), 0), lo)
          ELSE AddJoin(AddCarry(SubSeq(x, 1, k), SubSeq(y, 1, k), 1), lo)
AddSum(r) == Norm(<<r.carry>> \o r.ds)

\* a + b
Add(a, b) ==
  IF Len(a) >= Len(b) THEN AddSum(AddCarry(a, Zeros(Len(a) - Len(b)) \o b, 0))
  ELSE AddSum(AddCarry(Zeros(Len(b) - Len(a)) \o a, b, 0))

\* The value of a text of hexadecimal digits: the value of its first half,
\* shifted by four bits per digit of the second half, plus the second half's
RECURSIVE NatOfHex(_)
NatOfHex(cs) ==
  IF cs = <<>> THEN <<0>>
  ELSE IF Len(cs) = 1
  THEN LET d == DigitValue(cs[1]) IN IF d < 10 THEN <<d>> ELSE <<1, d - 10>>
  ELSE LET k == Len(cs) \div 2
           hi == NatOfHex(SubSeq(cs, 1, k))
           lo == NatOfHex(SubSeq(cs, k + 1, Len(cs)))
           shifted == DoubleN(hi, 4 * (Len(cs) - k))
       IN Add(shifted, lo)

\* The value of a text of digits of the base (10 or 16)
NatOfChars(cs, base) ==
  IF base = 10 THEN Norm([i \in 1..Len(cs) |-> DigitValue(cs[i])])
  ELSE NatOfHex(cs)

\* The decimal text of a natural number
CharsOfNat(n) == SubSeq([i \in 1..Len(n) |-> Digits[n[i] + 1]], 1, Len(n))

\* A natural number of at most nine digits as an integer of the model
RECURSIVE SmallNat(_)
SmallNat(n) ==
  IF n = <<>> THEN 0 ELSE SmallNat(SubSeq(n, 1, Len(n) - 1)) * 10 + n[Len(n)]

\* <<2^0, ..., 2^n>> and <<5^0, ..., 5^n>>
RECURSIVE Pow2UpTo(_)
Pow2UpTo(n) ==
  IF n = 0 THEN << <<1>> >>
  ELSE LET p == Pow2UpTo(n - 1) IN Append(p, Double(p[n]))
RECURSIVE Pow5UpTo(_)
Pow5UpTo(n) ==
  IF n = 0 THEN << <<1>> >>
  ELSE LET p == Pow5UpTo(n - 1) IN Append(p, Half(p[n] \o <<0>>))
Pow2 == Pow2UpTo(63)
Pow5 == Pow5UpTo(55)
Two52 == Pow2[53]
Two53 == Pow2[54]
Two63 == Pow2[64]

\* floor(log2 n) for 1 <= n < 2^53
Log2(n) == MaxOf({j \in 0..52 : NatLeq(Pow2[j + 1], n)})

\* The number of binary digits of n
RECURSIVE BitLen(_)
BitLen(n) ==
  IF n = <<0>> THEN 0
  ELSE IF NatLess(n, Two53) THEN Log2(n) + 1
  ELSE LET h == HalfN(n, 53) IN 53 + BitLen(h)

\* ------------------------------------------------------------------------
\* strconv and fmt
\* ------------------------------------------------------------------------

\* strconv.ParseInt(s, base, 64) for an explicit base: an optional sign, then
\* one or more digits of the base; a value outside int64 is a range error.
\* The result holds the sign and the magnitude.
ParseInt(s, base) ==
  LET signed == Len(s) > 0 /\ s[1] \in {"+", "-"}
      neg == signed /\ s[1] = "-"
      body == IF signed THEN Tail(s) ELSE s
      good == body # <<>> /\ \A i \in 1..Len(body) : DigitValue(body[i]) < base
      mag == NatOfChars(body, base)
  IN IF good /\ (NatLess(mag, Two63) \/ (neg /\ mag = Two63))
     THEN [ok |-> TRUE, neg |-> neg /\ mag # <<0>>, mag |-> mag]
     ELSE [ok |-> FALSE, neg |-> FALSE, mag |-> <<0>>]

\* strconv.Atoi
Atoi(s) == ParseInt(s, 10)

\* Whether a parsed integer lies in lo..hi (-999 <= lo, hi <= 999)
InRange(n, lo, hi) ==
  /\ n.ok /\ Len(n.mag) <= 3
  /\ LET v == IF n.neg THEN 0 - SmallNat(n.mag) ELSE SmallNat(n.mag)
     IN lo <= v /\ v <= hi

\* A parsed integer known to be small, as an integer of the model
IntOf(n) == IF n.neg THEN 0 - SmallNat(n.mag) ELSE SmallNat(n.mag)

\* fmt.Sprintf("%d", n) of a parsed int64
FormatInt(n) == (IF n.neg THEN <<"-">> ELSE <<>>) \o CharsOfNat(n.mag)

\* fmt's %d and %x of a non-negative integer
RECURSIVE NatToBase(_, _)
NatToBase(n, base) ==
  LET d == IF n % base < 10 THEN Digits[(n % base) + 1]
           ELSE LowerLetters[(n % base) - 9]
  IN IF n < base THEN <<d>> ELSE NatToBase(n \div base, base) \o <<d>>

\* fmt.Sprintf("%d", n)
FormatDec(n) == IF n < 0 THEN <<"-">> \o NatToBase(0 - n, 10) ELSE NatToBase(n, 10)

\* fmt.Sprintf("%02d", n)
FormatDec02(n) == IF n >= 0 /\ n < 10 THEN <<"0">> \o FormatDec(n) ELSE FormatDec(n)

\* A float64 as %.0f reads it: its sign, the integer part of its magnitude,
\* and how the fractional part compares with one half ("below" includes none)
FloatNaN == [ok |-> TRUE, kind |-> "nan", neg |-> FALSE, int |-> <<0>>, frac |-> "below"]
FloatInf(neg) == [ok |-> TRUE, kind |-> "inf", neg |-> neg, int |-> <<0>>, frac |-> "below"]
FloatNum(neg, int, frac) == [ok |-> TRUE, kind |-> "num", neg |-> neg, int |-> int, frac |-> frac]
FloatErr == [ok |-> FALSE, kind |-> "err", neg |-> FALSE, int |-> <<0>>, frac |-> "below"]

\* The digits of a fraction without its trailing zeros
TrimZeros(frac) ==
  LET nz == {i \in 1..Len(frac) : frac[i] # 0}
  IN IF nz = {} THEN <<>> ELSE SubSeq(frac, 1, MaxOf(nz))

\* 2^(-n) in units of 10^(-len): 5^n followed by len - n zeros
Gap(n, len) == Norm(Pow5[n + 1] \o Zeros(len - n))

\* The binary exponent of the float64 spacing just below up: one less when
\* up is a power of two
SpacingBelow(up, eUp) == IF up = Pow2[eUp + 1] THEN 54 - eUp ELSE 53 - eUp

\* Below 2^52, int, int + 1/2 and int + 1 are float64 values.  The nearest
\* float64 of int + 0.fz is int + 1/2, or int + 1, when the text is within
\* half the spacing 2^(e-52) of it (e the binary exponent of int; the spacing
\* below a power of two is half as wide; a tie goes to the even mantissa,
\* which int + 1/2 has unless e = 51).  scaled, half and one are 0.fz, 1/2
\* and 1 in units of 10^(-len).
RoundScaled(neg, int, up, e, len, scaled, half, one) ==
  IF IF NatLess(scaled, half)
     THEN IF e = 51
          THEN NatLess(half, Add(scaled, Gap(IF e < 0 THEN 55 ELSE 53 - e, len)))
          ELSE NatLeq(half, Add(scaled, Gap(IF e < 0 THEN 55 ELSE 53 - e, len)))
     ELSE IF e = 51
          THEN NatLess(scaled, Add(half, Gap(53 - e, len)))
          ELSE NatLeq(scaled, Add(half, Gap(53 - e, len)))
  THEN FloatNum(neg, int, "half")
  ELSE IF /\ NatLess(half, scaled)
          /\ NatLeq(one, Add(scaled, Gap(SpacingBelow(up, Log2(up)), len)))
  THEN FloatNum(neg, up, "below")
  ELSE FloatNum(neg, int, IF NatLess(scaled, half) THEN "below" ELSE "above")

RoundSmall(neg, int, fz, len) ==
  IF fz = <<>> THEN FloatNum(neg, int, "below")
  ELSE IF fz = <<5>> THEN FloatNum(neg, int, "half")
  ELSE RoundScaled(neg, int, Add(int, <<1>>),
                   IF int = <<0>> THEN 0 - 1 ELSE Log2(int), len,
                   Norm(fz \o Zeros(55)), <<5>> \o Zeros(len - 1), <<1>> \o Zeros(len))

\* From 2^52 on every float64 is an integer m * 2^s with m < 2^53; a mantissa
\* rounded up to 2^53 takes one more bit.
RoundResult(neg, s, m) ==
  IF s + (IF m = Two53 THEN 54 ELSE 53) > 1024 THEN FloatErr
  ELSE FloatNum(neg, DoubleN(m, s), "below")

\* m0 is int shifted right by s bits and m1 by s - 1 bits: the last bit
\* shifted out is the lowest bit of m1, and the sticky bit says whether
\* anything below it is set; round to nearest, ties to the even mantissa.
RoundMantissa(neg, int, fz, s, m0, m1) ==
  LET rnd == IF s = 0 THEN fz # <<>> /\ fz[1] >= 5 ELSE Odd(m1)
      stk == IF s = 0 THEN fz # <<>> /\ fz # <<5>>
             ELSE fz # <<>> \/ DoubleN(m1, s - 1) # int
  IN RoundResult(neg, s, IF rnd /\ (stk \/ Odd(m0)) THEN Add(m0, <<1>>) ELSE m0)

RoundLarge(neg, int, fz, s) ==
  RoundMantissa(neg, int, fz, s, HalfN(int, s), IF s = 0 THEN int ELSE HalfN(int, s - 1))

\* The float64 nearest to the decimal int.frac (ties to the even mantissa),
\* or the range error of a magnitude that rounds to 2^1024 or more
RoundFloat64(neg, int, frac) ==
  IF NatLess(int, Two52) THEN RoundSmall(neg, int, TrimZeros(frac), Len(TrimZeros(frac)) + 55)
  ELSE IF Len(int) > 309 THEN FloatErr
  ELSE RoundLarge(neg, int, TrimZeros(frac), BitLen(int) - 53)

\* n / 10^k as integer part and fraction digits (ds is n with at least k + 1
\* digits)
SplitPoint(neg, ds, k) ==
  RoundFloat64(neg, Norm(SubSeq(ds, 1, Len(ds) - k)), SubSeq(ds, Len(ds) - k + 1, Len(ds)))
FixedPoint(neg, n, k) == SplitPoint(neg, Zeros(k + 1 - Len(n)) \o n, k)

\* The float64 of n * 10^x, or of n * 2^x for a hexadecimal text
ScaleDecimal(neg, n, x) ==
  IF x >= 0
  THEN IF Len(n) + x > 309 THEN FloatErr
       ELSE RoundFloat64(neg, n \o Zeros(x), <<>>)
  \* a magnitude below 1/10 rounds to a float64 below one half
  ELSE IF 0 - x > Len(n) THEN FloatNum(neg, <<0>>, "below")
       ELSE FixedPoint(neg, n, 0 - x)
ScaleBinary(neg, n, x, bits) ==
  IF x >= 0
  THEN IF bits + x > 1024 THEN FloatErr
       ELSE RoundFloat64(neg, DoubleN(n, x), <<>>)
  \* a magnitude below 1/4 rounds to a float64 below one half
  ELSE IF bits + x < 0 - 1 THEN FloatNum(neg, <<0>>, "below")
       ELSE FixedPoint(neg, HalfN(n \o Zeros(0 - x), 0 - x), 0 - x)
Scale(neg, hex, n, x) ==
  IF n = <<0>> THEN FloatNum(neg, <<0>>, "below")
  ELSE IF hex THEN ScaleBinary(neg, n, x, BitLen(n))
  ELSE ScaleDecimal(neg, n, x)

\* strconv's underscoreOK: after the sign and a base prefix, every underscore
\* stands between two digits (the base prefix counts as a digit before it)
underscoreDigit(c, hex) ==
  c \in Range(Digits) \/ (hex /\ ToLowerChar(c) \in {"a", "b", "c", "d", "e", "f"})
underscoresIn(t, prefix, hex, first) ==
  \A i \in first..Len(t) :
    t[i] = "_" =>
      /\ IF i = first THEN prefix ELSE underscoreDigit(t[i - 1], hex)
      /\ i < Len(t) /\ underscoreDigit(t[i + 1], hex)
underscorePrefix(t) == Len(t) >= 2 /\ t[1] = "0" /\ ToLowerChar(t[2]) \in {"b", "o", "x"}
Unsigned(s) == IF Len(s) >= 1 /\ s[1] \in {"+", "-"} THEN Tail(s) ELSE s
underscoreOK(s) ==
  underscoresIn(Unsigned(s), underscorePrefix(Unsigned(s)),
                underscorePrefix(Unsigned(s)) /\ ToLowerChar(Unsigned(s)[2]) = "x",
                IF underscorePrefix(Unsigned(s)) THEN 3 ELSE 1)

\* readFloat's exponent: digits are taken in only while e < 10000
RECURSIVE ExpAcc(_, _)
ExpAcc(e, ds) ==
  IF ds = <<>> THEN e
  ELSE ExpAcc(IF e < 10000 THEN e * 10 + DigitValue(Head(ds)) ELSE e, Tail(ds))

NoUnderscores(cs) == SelectSeq(cs, LAMBDA c : c # "_")

\* readFloat: the mantissa is the longest prefix of digits (of the base),
\* underscores and at most one point
MantissaEnd(body, hex) ==
  LET dots == {i \in 1..Len(body) : body[i] = "."}
      stops == {i \in 1..Len(body) :
                  ~ \/ body[i] = "_"
                    \/ body[i] \in Range(Digits)
                    \/ hex /\ ToLowerChar(body[i]) \in {"a", "b", "c", "d", "e", "f"}
                    \/ body[i] = "." /\ i = MinOf(dots)}
  IN IF stops = {} THEN Len(body) ELSE MinOf(stops) - 1
PointOf(mant) ==
  LET mdots == {i \in 1..Len(mant) : mant[i] = "."}
  IN IF mdots = {} THEN Len(mant) + 1 ELSE MinOf(mdots)

\* readFloat: the exponent part, "e" or "p", an optional sign, digits
ExponentOK(edigits) ==
  /\ edigits # <<>> /\ edigits[1] \in Range(Digits)
  /\ \A i \in 1..Len(edigits) : edigits[i] \in Range(Digits) \cup {"_"}
ExponentOf(ex) ==
  IF ex # <<>> /\ ex[1] = "-" THEN 0 - ExpAcc(0, NoUnderscores(Tail(ex)))
  ELSE ExpAcc(0, NoUnderscores(Unsigned(ex)))
readExponent(s, neg, hex, ip, fp, rest, hasExp) ==
  IF ~ /\ Len(ip) + Len(fp) > 0
       /\ IF hasExp THEN ExponentOK(Unsigned(Tail(rest))) ELSE ~hex /\ rest = <<>>
       /\ ("_" \in Range(s)) => underscoreOK(s)
  THEN FloatErr
  ELSE Scale(neg, hex, NatOfChars(ip \o fp, IF hex THEN 16 ELSE 10),
             (IF hasExp THEN ExponentOf(Tail(rest)) ELSE 0)
             - (IF hex THEN 4 * Len(fp) ELSE Len(fp)))
readMantissa(s, neg, hex, mant, dot, rest) ==
  readExponent(s, neg, hex,
               NoUnderscores(SubSeq(mant, 1, dot - 1)),
               NoUnderscores(SubSeq(mant, dot + 1, Len(mant))),
               rest,
               rest # <<>> /\ ToLowerChar(rest[1]) = (IF hex THEN "p" ELSE "e"))
readBody(s, neg, hex, body, stop) ==
  readMantissa(s, neg, hex, SubSeq(body, 1, stop), PointOf(SubSeq(body, 1, stop)),
               SubSeq(body, stop + 1, Len(body)))
readPrefix(s, neg, t, hex) ==
  readBody(s, neg, hex, IF hex THEN SubSeq(t, 3, Len(t)) ELSE t,
           MantissaEnd(IF hex THEN SubSeq(t, 3, Len(t)) ELSE t, hex))
readFloat(s, neg, t) ==
  readPrefix(s, neg, t, Len(t) > 2 /\ t[1] = "0" /\ ToLowerChar(t[2]) = "x")

\* strconv.ParseFloat(s, 64): "nan", a signed "inf"/"infinity", or a decimal
\* or hexadecimal floating-point text (optional sign, digits with at most one
\* point, an exponent that a hexadecimal mantissa requires, underscores
\* between digits), rounded to the nearest float64.
ParseFloat(s) ==
  IF ToLower(s) = <<"n","a","n">> THEN FloatNaN
  ELSE IF ToLower(Unsigned(s)) \in {<<"i","n","f">>, <<"i","n","f","i","n","i","t","y">>}
  THEN FloatInf(Len(s) > 0 /\ s[1] = "-")
  ELSE readFloat(s, Len(s) > 0 /\ s[1] = "-", Unsigned(s))

\* fmt.Sprintf("%.0f", f): round to the nearest integer, ties to even; the
\* sign is kept even when the result is zero ("-0"); NaN and infinities print
\* as "NaN", "+Inf", "-Inf".
FormatFloat0(f) ==
  LET up == f.frac = "above" \/ (f.frac = "half" /\ Odd(f.int))
      mag == CharsOfNat(IF up THEN Add(f.int, <<1>>) ELSE f.int)
  IN IF f.kind = "nan" THEN <<"N","a","N">>
     ELSE IF f.kind = "inf"
          THEN (IF f.neg THEN <<"-">> ELSE <<"+">>) \o <<"I","n","f">>
          ELSE (IF f.neg THEN <<"-">> ELSE <<>>) \o mag

\* ------------------------------------------------------------------------
\* Text literals of src/main.go
\* ------------------------------------------------------------------------

S_all == <<"a","l","l">>
S_0 == <<"0">>
S_00 == <<"0","0">>
S_na == <<"n","a">>
NA == <<"N","/","A">>
S_FAN == <<"F","A","N">>
S_POWER == <<"P","O","W","E","R">>
S_TEMP == <<"T","E","M","P">>
S_AIRFLOW == <<"A","I","R","F","L","O","W">>
S_RPM == <<" ","R","P","M">>
S_degreesC == <<"d","e","g","r","e","e","s"," ","C">>
\* "°C": the degree sign is one character of the model's alphabet
S_celsius == <<"deg","C">>
S_status == <<"s","t","a","t","u","s">>
S_get == <<"g","e","t">>
S_set == <<"s","e","t">>
S_testrun == <<"t","e","s","t","r","u","n">>
S_json == <<"-","-","j","s","o","n">>
S_40 == <<"4","0">>
S_01 == <<"0","1">>

SystemFan1 == <<"S","y","s","t","e","m"," ","F","a","n","1">>
SystemFan2 == <<"S","y","s","t","e","m"," ","F","a","n","2">>
SystemFan3 == <<"S","y","s","t","e","m"," ","F","a","n","3">>
SystemFan4 == <<"S","y","s","t","e","m"," ","F","a","n","4">>
CPUFan1 == <<"C","P","U"," ","F","a","n","1">>
CPUFan2 == <<"C","P","U"," ","F","a","n","2">>

\* getStatus: the six fan names, in report order
fanNames == <<SystemFan1, SystemFan2, SystemFan3, SystemFan4, CPUFan1, CPUFan2>>

\* testrun: fan name -> id used by the set command
fanIDs == [n \in Range(fanNames) |-> <<"0", Digits[IndexOf(n, fanNames) + 1]>>]

\* A Go map read: the zero value "" for a missing key
EmptyMap == [k \in {} |-> <<>>]
MapGet(m, k) == IF k \in DOMAIN m THEN m[k] ELSE <<>>
MapPut(m, k, v) == [x \in DOMAIN m \cup {k} |-> IF x = k THEN v ELSE m[x]]

\* ------------------------------------------------------------------------
\* The external tool: command lines and results
\* ------------------------------------------------------------------------

S_raw == <<"r","a","w">>
S_0x2e == <<"0","x","2","e">>
S_0x31 == <<"0","x","3","1">>
S_0x30 == <<"0","x","3","0">>
S_sensor == <<"s","e","n","s","o","r">>
S_list == <<"l","i","s","t">>

\* ipmiRaw: the argument list handed to ipmitool
ipmiRawCmd(a) == <<S_raw, S_0x2e>> \o a
RawReadCmd == ipmiRawCmd(<<S_0x31>>)
RawWriteCmd(id, hexSpeed) == ipmiRawCmd(<<S_0x30, S_00, id, hexSpeed>>)
\* getStatus: exec.Command("ipmitool", "sensor", "list")
SensorListCmd == <<S_sensor, S_list>>

\* One tool invocation as the process boundary sees it: the command line and
\* what the tool answered (err: non-zero exit or not runnable; out: its text)
Call(cmd, res) == [cmd |-> cmd, err |-> res.err, out |-> res.out]
Failed == [err |-> TRUE, out |-> <<>>]
Answered(text) == [err |-> FALSE, out |-> text]

\* One printed message: which Println/Printf of main.go, and its arguments
Msg(m, a) == [msg |-> m, arg |-> a]

\* What a helper function did: the tool invocations it made, what it printed,
\* and whether it ended the process with os.Exit(1)
Effect(inv, out, exit) == [inv |-> inv, out |-> out, exit |-> exit]

\* ------------------------------------------------------------------------
\* The functions of src/main.go
\* ------------------------------------------------------------------------

hexToPercent(hexStr) ==
  LET dec == ParseInt(hexStr, 16)
  IN IF ~dec.ok THEN NA ELSE FormatInt(dec) \o <<"%">>

\* getPWMs with the token count checked against 2 instead of 7: whatever
\* tokens are present are decoded
getPWMs_partial(res) ==
  LET parts == Fields(res.out)
  IN IF res.err THEN EmptyMap
     ELSE IF Len(parts) >= 2
          THEN [n \in {m \in Range(fanNames) : IndexOf(m, fanNames) + 1 <= Len(parts)} |->
                  hexToPercent(parts[IndexOf(n, fanNames) + 1])]
          ELSE EmptyMap

getPWMs(res) ==
  LET parts == Fields(res.out)
  IN IF res.err THEN EmptyMap
     ELSE IF Len(parts) >= 7
          THEN [n \in Range(fanNames) |-> hexToPercent(parts[IndexOf(n, fanNames) + 1])]
          ELSE EmptyMap

\* getSpeed without the upper bound on the id
getSpeed_noUpperBound(idStr, res) ==
  LET id == Atoi(idStr)
      parts == Fields(res.out)
      read == <<Call(RawReadCmd, res)>>
  IN IF ToLower(idStr) = S_all \/ idStr = S_0 \/ idStr = S_00
     THEN Effect(<<>>, <<Msg("GetUseStatus", <<>>)>>, FALSE)
     ELSE IF ~id.ok \/ id.neg \/ id.mag = <<0>>
     THEN Effect(<<>>, <<Msg("GetBadId", <<>>)>>, FALSE)
     ELSE IF res.err
     THEN Effect(read, <<Msg("IPMIError", <<>>)>>, TRUE)
     ELSE IF Len(parts) > IntOf(id)
     THEN Effect(read,
                 <<Msg("FanPWM", <<FormatDec02(IntOf(id)), hexToPercent(parts[IntOf(id) + 1])>>)>>,
                 FALSE)
     ELSE Effect(read, <<Msg("GetBadFormat", <<>>)>>, FALSE)

getSpeed(idStr, res) ==
  LET id == Atoi(idStr)
      parts == Fields(res.out)
      read == <<Call(RawReadCmd, res)>>
  IN IF ToLower(idStr) = S_all \/ idStr = S_0 \/ idStr = S_00
     THEN Effect(<<>>, <<Msg("GetUseStatus", <<>>)>>, FALSE)
     ELSE IF ~InRange(id, 1, 6)
     THEN Effect(<<>>, <<Msg("GetBadId", <<>>)>>, FALSE)
     ELSE IF res.err
     THEN Effect(read, <<Msg("IPMIError", <<>>)>>, TRUE)
     ELSE IF Len(parts) > IntOf(id)
     THEN Effect(read,
                 <<Msg("FanPWM", <<FormatDec02(IntOf(id)), hexToPercent(parts[IntOf(id) + 1])>>)>>,
                 FALSE)
     ELSE Effect(read, <<Msg("GetBadFormat", <<>>)>>, FALSE)

\* formatID comparing "all" without folding the case
formatID_caseSensitive(idStr) ==
  IF idStr = S_all \/ idStr = S_0 \/ idStr = S_00 THEN S_00
  ELSE IF ByteLen(idStr) = 1 THEN <<"0">> \o idStr
  ELSE idStr

\* setSpeed: the id as it is written into the command
formatID(idStr) ==
  IF ToLower(idStr) = S_all \/ idStr = S_0 \/ idStr = S_00 THEN S_00
  ELSE IF ByteLen(idStr) = 1 THEN <<"0">> \o idStr
  ELSE idStr

\* speedOK without the upper bound
speedOK_noUpperBound(speed) == speed.ok /\ ~speed.neg

\* setSpeed: the speed check
speedOK(speed) == InRange(speed, 0, 100)

\* setSpeed: fmt.Sprintf("0x%x", speed)
hexSpeedOf(n) == <<"0", "x">> \o NatToBase(n, 16)

\* setSpeed that reports a failed write and returns instead of exiting
setSpeed_noExit(idStr, speedStr, res) ==
  LET speed == Atoi(speedStr)
      formattedID == formatID(idStr)
      isAll == ToLower(idStr) = S_all \/ idStr = S_0 \/ idStr = S_00
      write == <<Call(RawWriteCmd(formattedID, hexSpeedOf(IntOf(speed))), res)>>
  IN IF ~speedOK(speed)
     THEN Effect(<<>>, <<Msg("SetBadSpeed", <<>>)>>, FALSE)
     ELSE IF res.err
     THEN Effect(write, <<Msg("IPMIError", <<>>)>>, FALSE)
     ELSE IF isAll
     THEN Effect(write, <<Msg("SetAllOK", <<FormatDec(IntOf(speed))>>)>>, FALSE)
     ELSE Effect(write, <<Msg("SetFanOK", <<formattedID, FormatDec(IntOf(speed))>>)>>, FALSE)

setSpeed(idStr, speedStr, res) ==
  LET speed == Atoi(speedStr)
      formattedID == formatID(idStr)
      isAll == ToLower(idStr) = S_all \/ idStr = S_0 \/ idStr = S_00
      write == <<Call(RawWriteCmd(formattedID, hexSpeedOf(IntOf(speed))), res)>>
  IN IF ~speedOK(speed)
     THEN Effect(<<>>, <<Msg("SetBadSpeed", <<>>)>>, FALSE)
     ELSE IF res.err
     THEN Effect(write, <<Msg("IPMIError", <<>>)>>, TRUE)
     ELSE IF isAll
     THEN Effect(write, <<Msg("SetAllOK", <<FormatDec(IntOf(speed))>>)>>, FALSE)
     ELSE Effect(write, <<Msg("SetFanOK", <<formattedID, FormatDec(IntOf(speed))>>)>>, FALSE)

\* parseLine dropping every reading that normalises to "0", whatever its unit
parseLine_dropAnyZero(acc, line) ==
  LET parts == Split(line, "|")
      name == TrimSpace(parts[1])
      val == TrimSpace(parts[2])
      unit == TrimSpace(parts[3])
      lineUpper == ToUpper(line)
      valFloat == ParseFloat(val)
      cleanVal == IF valFloat.ok THEN FormatFloat0(valFloat) ELSE val
      cleanUnit == IF unit = S_degreesC THEN S_celsius ELSE unit
  IN IF TrimSpace(line) = <<>> THEN acc
     ELSE IF Len(parts) < 3 THEN acc
     ELSE IF val = S_na /\ ~Contains(lineUpper, S_FAN) THEN acc
     ELSE IF Contains(lineUpper, S_FAN) /\ ~Contains(lineUpper, S_POWER)
     THEN IF val # S_na
          THEN [acc EXCEPT !.rpmMap = MapPut(@, name, val \o S_RPM)]
          ELSE acc
     ELSE IF Contains(lineUpper, S_TEMP) \/ Contains(lineUpper, S_AIRFLOW)
     THEN IF cleanVal = <<"0">>
          THEN acc
          ELSE [acc EXCEPT !.thermals =
                  Append(@, [name |-> name, value |-> cleanVal \o <<" ">> \o cleanUnit])]
     ELSE acc

\* getStatus, the body of the loop over the sensor list's lines: acc holds
\* rpmMap and thermals
parseLine(acc, line) ==
  LET parts == Split(line, "|")
      name == TrimSpace(parts[1])
      val == TrimSpace(parts[2])
      unit == TrimSpace(parts[3])
      lineUpper == ToUpper(line)
      valFloat == ParseFloat(val)
      cleanVal == IF valFloat.ok THEN FormatFloat0(valFloat) ELSE val
      cleanUnit == IF unit = S_degreesC THEN S_celsius ELSE unit
  IN IF TrimSpace(line) = <<>> THEN acc
     ELSE IF Len(parts) < 3 THEN acc
     ELSE IF val = S_na /\ ~Contains(lineUpper, S_FAN) THEN acc
     ELSE IF Contains(lineUpper, S_FAN) /\ ~Contains(lineUpper, S_POWER)
     THEN IF val # S_na
          THEN [acc EXCEPT !.rpmMap = MapPut(@, name, val \o S_RPM)]
          ELSE acc
     ELSE IF Contains(lineUpper, S_TEMP) \/ Contains(lineUpper, S_AIRFLOW)
     THEN IF cleanVal = <<"0">> /\ cleanUnit = S_celsius
          THEN acc
          ELSE [acc EXCEPT !.thermals =
                  Append(@, [name |-> name, value |-> cleanVal \o <<" ">> \o cleanUnit])]
     ELSE acc

RECURSIVE parseLines(_, _)
parseLines(acc, lines) ==
  IF lines = <<>> THEN acc ELSE parseLines(parseLine(acc, Head(lines)), Tail(lines))

\* getStatus, step 1: rpmMap and thermals from the sensor list's text
parseSensors(text) ==
  parseLines([rpmMap |-> EmptyMap, thermals |-> <<>>], Split(text, "\n"))

\* buildFans without the "N/A" fill of a missing PWM
buildFans_noFill(pwms, rpmMap) ==
  [i \in 1..Len(fanNames) |->
     [name |-> fanNames[i],
      rpm |-> IF MapGet(rpmMap, fanNames[i]) = <<>> THEN NA ELSE MapGet(rpmMap, fanNames[i]),
      pwm |-> MapGet(pwms, fanNames[i])]]

\* getStatus, step 2: the six-fan array
buildFans(pwms, rpmMap) ==
  [i \in 1..Len(fanNames) |->
     [name |-> fanNames[i],
      rpm |-> IF MapGet(rpmMap, fanNames[i]) = <<>> THEN NA ELSE MapGet(rpmMap, fanNames[i]),
      pwm |-> IF MapGet(pwms, fanNames[i]) = <<>> THEN NA ELSE MapGet(pwms, fanNames[i])]]

\* getStatus that ends the process when the sensor list fails
getStatus_exitOnSensorError(asJson, fetched, sensRes) ==
  LET parsed == parseSensors(sensRes.out)
      report == [fans |-> buildFans(fetched, parsed.rpmMap), thermals |-> parsed.thermals]
      inv == <<Call(SensorListCmd, sensRes)>>
  IN IF sensRes.err
     THEN Effect(inv, <<Msg("SensorError", <<>>)>>, TRUE)
     ELSE Effect(inv, <<Msg(IF asJson THEN "ReportJSON" ELSE "ReportText", report)>>, FALSE)

\* getStatus from the sensor list on, once getPWMs has returned (fetched is
\* its result).  The report is printed as JSON or as two tables; either way
\* the message carries the StatusReport.  (json.Encoder cannot fail on a
\* struct of strings, so "JSON Encoding Error" is never printed.)
getStatus(asJson, fetched, sensRes) ==
  LET parsed == parseSensors(sensRes.out)
      report == [fans |-> buildFans(fetched, parsed.rpmMap), thermals |-> parsed.thermals]
      inv == <<Call(SensorListCmd, sensRes)>>
  IN IF sensRes.err
     THEN Effect(inv, <<Msg("SensorError", <<>>)>>, FALSE)
     ELSE Effect(inv, <<Msg(IF asJson THEN "ReportJSON" ELSE "ReportText", report)>>, FALSE)

\* ------------------------------------------------------------------------
\* Bounded inputs: command lines and tool answers
\* ------------------------------------------------------------------------

\* Lines of a sensor listing per tool answer
MaxRows == 2

SeqsUpTo(S, n) == UNION {[1..k -> S] : k \in 0..n}

RECURSIVE JoinTokens(_)
JoinTokens(ts) == IF ts = <<>> THEN <<>> ELSE <<" ">> \o Head(ts) \o JoinTokens(Tail(ts))

RECURSIVE JoinLines(_)
JoinLines(ls) == IF ls = <<>> THEN <<>> ELSE Head(ls) \o <<"\n">> \o JoinLines(Tail(ls))

\* Answers of "ipmitool raw 0x2e 0x31" as ipmitool prints bytes: each token
\* after a space, then a newline.  Six, seven and eight tokens; hexadecimal
\* above 0x64, upper case, signed and non-hexadecimal tokens.
RawTokenSeqs == {
  <<<<"0","0">>, <<"0","a">>, <<"1","4">>, <<"1","e">>, <<"2","8">>, <<"3","2">>, <<"6","4">>>>,
  <<<<"0","0">>, <<"f","f">>, <<"z","z">>, <<"3","2">>, <<"6","5">>, <<"z","z">>, <<"z","z">>>>,
  <<<<"0","0">>, <<"1","E">>, <<"0","0">>, <<"z","z">>, <<"-","5">>, <<"z","z">>, <<"z","z">>, <<"1","1">>>>,
  <<<<"0","0">>, <<"3","2">>, <<"3","2">>, <<"3","2">>, <<"3","2">>, <<"3","2">>>> }
RawOutputs == {JoinTokens(ts) \o <<"\n">> : ts \in RawTokenSeqs}
RawResults == {Failed} \cup {Answered(o) : o \in RawOutputs}

\* Answers of the raw write: its text is never read
WriteResults == {Failed, Answered(<<"\n">>)}

\* Lines of "ipmitool sensor list": name | value | unit | status
\* (values that are no float64, that sit on a rounding tie once converted, and
\* in exponent notation among them)
SensorLines == {
  <<"S","y","s","t","e","m"," ","F","a","n","1"," ","|"," ","1","5","5","8",".","0","0","0"," ","|"," ","R","P","M"," ","|"," ","o","k">>,
  <<"S","y","s","t","e","m"," ","F","a","n","1"," ","|"," ","n","a"," ","|"," ","R","P","M"," ","|"," ","n","a">>,
  <<"P","S","U"," ","F","a","n"," ","|"," ","9","0","0"," ","|"," ","R","P","M"," ","|"," ","o","k">>,
  <<"F","a","n"," ","P","o","w","e","r"," ","T","e","m","p"," ","|"," ","n","a"," ","|"," ","W","a","t","t","s"," ","|"," ","n","a">>,
  <<"C","P","U","1"," ","T","e","m","p"," ","|"," ","n","a"," ","|"," ","d","e","g","r","e","e","s"," ","C"," ","|"," ","n","a">>,
  <<"C","P","U","1"," ","T","e","m","p"," ","|"," ","0",".","0","0","0"," ","|"," ","d","e","g","r","e","e","s"," ","C"," ","|"," ","o","k">>,
  <<"P","C","H"," ","T","e","m","p"," ","|"," ","-","4","e","-","1"," ","|"," ","d","e","g","r","e","e","s"," ","C"," ","|"," ","o","k">>,
  <<"V","R"," ","T","e","m","p"," ","|"," ","0",".","5","0","0","0","0","0","0","0","0","0","0","0","0","0","0","0","1"," ","|"," ","deg","C"," ","|"," ","o","k">>,
  <<"A","i","r","f","l","o","w"," ","r","a","t","e"," ","|"," ","0",".","0","0","0"," ","|"," ","C","F","M"," ","|"," ","o","k">>,
  <<"A","i","r","f","l","o","w"," ","r","a","t","e"," ","|"," ","2",".","5","0","0","0","0","0","0","0","0","0","0","0","0","0","0","1"," ","|"," ","C","F","M"," ","|"," ","o","k">>,
  <<"E","x","h","a","u","s","t"," ","T","e","m","p"," ","|"," ","0","e","0"," ","|"," ","d","e","g","r","e","e","s"," ","C"," ","|"," ","o","k">>,
  <<"C","P","U"," ","V","c","o","r","e"," ","|"," ","1",".","8","0","0"," ","|"," ","V","o","l","t","s"," ","|"," ","o","k">>,
  <<"T","e","m","p"," ","|"," ","7">>,
  <<" ">> }
SensorOutputs == {JoinLines(ls) : ls \in SeqsUpTo(SensorLines, MaxRows)}
SensorResults == {Failed} \cup {Answered(o) : o \in SensorOutputs}

\* The answers drawn inside testrun's get and status steps
RawResultsBrief ==
  {Failed,
   Answered(JoinTokens(<<<<"0","0">>, <<"0","a">>, <<"1","4">>, <<"1","e">>, <<"2","8">>, <<"3","2">>, <<"6","4">>>>) \o <<"\n">>),
   Answered(<<"\n">>)}
SensorResultsBrief ==
  {Failed,
   Answered(JoinLines(<<<<"S","y","s","t","e","m"," ","F","a","n","1"," ","|"," ","1","5","5","8",".","0","0","0"," ","|"," ","R","P","M"," ","|"," ","o","k">>,
                        <<"C","P","U","1"," ","T","e","m","p"," ","|"," ","3","5",".","0","0","0"," ","|"," ","d","e","g","r","e","e","s"," ","C"," ","|"," ","o","k">>>>))}

\* os.Args[1:]
IdArgs == {
  <<"a","l","l">>,
  <<"A","L","L">>,
  <<"a","L","l">>,
  <<"0">>,
  <<"0","0">>,
  <<"0","0","0">>,
  <<"1">>,
  <<"0","1">>,
  <<"0","0","1">>,
  <<"6">>,
  <<"0","6">>,
  <<"7">>,
  <<"0","7">>,
  <<"+","3">>,
  <<"a">>,
  <<"1","2">>,
  <<"deg">>,
  <<>> }
SpeedArgs == {
  <<"0">>,
  <<"4","5">>,
  <<"1","0","0">>,
  <<"1","0","1">>,
  <<"1","5","0">>,
  <<"-","1">>,
  <<"+","5","0">>,
  <<"0","4","5">>,
  <<"a","b","c">>,
  <<>>,
  <<"4",".","5">> }
ArgLists ==
  {<<>>, <<S_status>>, <<S_status, S_json>>,
   <<S_get>>, <<S_set>>, <<S_testrun>>,
   <<<<"h","e","l","p">>>>, <<<<"S","t","a","t","u","s">>>>, <<<<"h","e","l","p">>, S_01, S_40>>}
  \cup {<<S_get, i>> : i \in IdArgs}
  \cup {<<S_get, i, S_40>> : i \in {S_01, S_00}}
  \cup {<<S_set, i>> : i \in {S_01, S_all}}
  \cup {<<S_set, i, v>> : i \in IdArgs, v \in SpeedArgs}

\* ------------------------------------------------------------------------
\* The process
\* ------------------------------------------------------------------------

VARIABLES
  pc,            \* where main is: "start", "status" (getStatus, after getPWMs),
                 \* "step1".."step4" and "step3s" (testrun), "exit"
  args,          \* os.Args[1:]
  toolPresent,   \* whether exec.LookPath finds ipmitool
  log,           \* the tool invocations made so far, in order, with their answers
  stdout,        \* the messages printed so far, in order
  exitCode,      \* the process's exit code, once pc = "exit"
  pwms,          \* getStatus: fan name -> PWM text, as getPWMs returned it
  originalPWMs,  \* testrun: fan name -> PWM text captured in step 0
  savedSpeeds,   \* testrun: fan id -> speed text to restore
  pending        \* testrun: the keys of savedSpeeds the restore loop has yet to visit

vars == <<pc, args, toolPresent, log, stdout, exitCode, pwms,
          originalPWMs, savedSpeeds, pending>>

testrunVars == <<originalPWMs, savedSpeeds, pending>>

Init ==
  /\ pc = "start"
  /\ args \in ArgLists
  /\ toolPresent \in BOOLEAN
  /\ log = <<>>
  /\ stdout = <<>>
  /\ exitCode = 0
  /\ pwms = EmptyMap
  /\ originalPWMs = EmptyMap
  /\ savedSpeeds = EmptyMap
  /\ pending = {}

\* main returns (exit code 0) or a helper called os.Exit(1)
Finish(e) ==
  /\ log' = log \o e.inv
  /\ stdout' = stdout \o e.out
  /\ exitCode' = IF e.exit THEN 1 ELSE 0
  /\ pc' = "exit"
  /\ UNCHANGED <<args, toolPresent>>

\* getStatus up to the sensor list: pwms := getPWMs(), whose raw read may
\* fail or come back short without a message
FetchPWMs(res, next) ==
  /\ pwms' = getPWMs(res)
  /\ log' = Append(log, Call(RawReadCmd, res))
  /\ pc' = next
  /\ UNCHANGED <<args, toolPresent, stdout, exitCode>>

\* A testrun step: the helper's effect, then the next step's banner unless
\* the helper ended the process
Step(e, next, banner) ==
  /\ log' = log \o e.inv
  /\ stdout' = stdout \o e.out \o (IF e.exit THEN <<>> ELSE banner)
  /\ exitCode' = IF e.exit THEN 1 ELSE 0
  /\ pc' = IF e.exit THEN "exit" ELSE next
  /\ UNCHANGED <<args, toolPresent>>

Started == pc = "start" /\ toolPresent

\* main: checkDependencies fails
DepMissing ==
  /\ pc = "start" /\ ~toolPresent
  /\ Finish(Effect(<<>>, <<Msg("DepMissing", <<>>)>>, TRUE))
  /\ UNCHANGED <<pwms, testrunVars>>

\* main: no subcommand
Usage ==
  /\ Started /\ Len(args) < 1
  /\ Finish(Effect(<<>>, <<Msg("Usage", <<>>)>>, FALSE))
  /\ UNCHANGED <<pwms, testrunVars>>

\* main: case "status", getStatus up to the sensor list
CmdStatus ==
  /\ Started /\ Len(args) >= 1 /\ args[1] = S_status
  /\ \E rawRes \in RawResults : FetchPWMs(rawRes, "status")
  /\ UNCHANGED testrunVars

\* main: case "status", getStatus from the sensor list on
CmdStatusSensors ==
  /\ pc = "status"
  /\ \E sensRes \in SensorResults :
       Finish(getStatus(Len(args) > 1 /\ args[2] = S_json, pwms, sensRes))
  /\ UNCHANGED <<pwms, testrunVars>>

\* main: case "get"
CmdGet ==
  /\ Started /\ Len(args) >= 1 /\ args[1] = S_get
  /\ IF Len(args) < 2
     THEN Finish(Effect(<<>>, <<Msg("GetMissingArgs", <<>>)>>, FALSE))
     ELSE \E res \in RawResults : Finish(getSpeed(args[2], res))
  /\ UNCHANGED <<pwms, testrunVars>>

\* main: case "set"
CmdSet ==
  /\ Started /\ Len(args) >= 1 /\ args[1] = S_set
  /\ IF Len(args) < 3
     THEN Finish(Effect(<<>>, <<Msg("SetMissingArgs", <<>>)>>, FALSE))
     ELSE \E res \in WriteResults : Finish(setSpeed(args[2], args[3], res))
  /\ UNCHANGED <<pwms, testrunVars>>

\* main: default case
CmdUnknown ==
  /\ Started /\ Len(args) >= 1
  /\ args[1] \notin {S_status, S_get, S_set, S_testrun}
  /\ Finish(Effect(<<>>, <<Msg("UnknownCommand", <<args[1]>>)>>, FALSE))
  /\ UNCHANGED <<pwms, testrunVars>>

\* testrun: the speeds to restore, from the captured PWM texts
savedFrom(original) ==
  LET valid == {n \in Range(fanNames) :
                  MapGet(original, n) # NA /\ MapGet(original, n) # <<>>}
  IN [id \in {fanIDs[n] : n \in valid} |->
        TrimSuffix(original[CHOOSE n \in valid : fanIDs[n] = id], <<"%">>)]

\* main: case "testrun", step 0: capture and back up.  The backup lines come
\* out in Go's unspecified map order; they are recorded as one message.
TestrunSave ==
  /\ Started /\ Len(args) >= 1 /\ args[1] = S_testrun
  /\ \E res \in RawResults :
       /\ originalPWMs' = getPWMs(res)
       /\ savedSpeeds' = savedFrom(getPWMs(res))
       /\ pending' = DOMAIN savedFrom(getPWMs(res))
       /\ Step(Effect(<<Call(RawReadCmd, res)>>,
                      <<Msg("TestStart", <<>>), Msg("Step0", <<>>),
                        Msg("BackedUp", savedFrom(getPWMs(res)))>>,
                      FALSE),
               "step1", <<Msg("Step1", <<>>)>>)
  /\ UNCHANGED pwms

\* testrun, step 1: setSpeed("all", "40")
TestrunSetAll ==
  /\ pc = "step1"
  /\ \E res \in WriteResults :
       Step(setSpeed(S_all, S_40, res), "step2", <<Msg("Step2", <<>>)>>)
  /\ UNCHANGED <<pwms, testrunVars>>

\* testrun, step 2: getSpeed("01")
TestrunGet ==
  /\ pc = "step2"
  /\ \E res \in RawResultsBrief :
       Step(getSpeed(S_01, res), "step3", <<Msg("Step3", <<>>)>>)
  /\ UNCHANGED <<pwms, testrunVars>>

\* testrun, step 3: getStatus(false) up to the sensor list
TestrunStatus ==
  /\ pc = "step3"
  /\ \E rawRes \in RawResultsBrief : FetchPWMs(rawRes, "step3s")
  /\ UNCHANGED testrunVars

\* testrun, step 3: getStatus(false) from the sensor list on
TestrunStatusSensors ==
  /\ pc = "step3s"
  /\ \E sensRes \in SensorResultsBrief :
       Step(getStatus(FALSE, pwms, sensRes), "step4", <<Msg("Step4", <<>>)>>)
  /\ UNCHANGED <<pwms, testrunVars>>

\* testrun, step 4: one iteration of the loop over savedSpeeds (Go visits the
\* keys of a map in an unspecified order)
TestrunRestore ==
  /\ pc = "step4"
  /\ \E id \in pending, res \in WriteResults :
       /\ pending' = pending \ {id}
       /\ Step(setSpeed(id, savedSpeeds[id], res), "step4", <<>>)
  /\ UNCHANGED <<pwms, originalPWMs, savedSpeeds>>

\* testrun: the loop is over
TestrunComplete ==
  /\ pc = "step4" /\ pending = {}
  /\ Finish(Effect(<<>>, <<Msg("TestComplete", <<>>)>>, FALSE))
  /\ UNCHANGED <<pwms, testrunVars>>

Next ==
  \/ DepMissing
  \/ Usage
  \/ CmdStatus
  \/ CmdStatusSensors
  \/ CmdGet
  \/ CmdSet
  \/ CmdUnknown
  \/ TestrunSave
  \/ TestrunSetAll
  \/ TestrunGet
  \/ TestrunStatus
  \/ TestrunStatusSensors
  \/ TestrunRestore
  \/ TestrunComplete

Spec == Init /\ [][Next]_vars

\* ------------------------------------------------------------------------
\* Vocabulary of the properties
\* ------------------------------------------------------------------------

Exited == pc = "exit"
IsCmd(name) == toolPresent /\ Len(args) >= 1 /\ args[1] = name

IsRead(c) == c.cmd = RawReadCmd
IsSensorList(c) == c.cmd = SensorListCmd
IsWrite(c) == Len(c.cmd) = 6 /\ c.cmd[3] = S_0x30
WriteId(c) == c.cmd[5]
WriteSpeed(c) == c.cmd[6]

\* The texts that denote an integer in lo..hi: an optional sign, up to two
\* leading zeros, the decimal digits
IntegerTexts(lo, hi) ==
  {sg \o z \o NatToBase(n, 10) :
     n \in lo..hi, sg \in {<<>>, <<"+">>}, z \in {<<>>, <<"0">>, <<"0", "0">>}}
  \cup (IF lo <= 0 /\ 0 <= hi
        THEN {<<"-">> \o z \o <<"0">> : z \in {<<>>, <<"0">>, <<"0", "0">>}}
        ELSE {})
SpeedTexts == IntegerTexts(0, 100)
GetIdTexts == IntegerTexts(1, 6)
BroadcastIds == {S_0, S_00} \cup {t \in [1..3 -> {"a","A","l","L"}] : ToLower(t) = S_all}

\* The percentage text a write's speed byte stands for ("0x28" -> "40%%")
ByteAsPercent(h) ==
  IF Len(h) > 2 /\ SubSeq(h, 1, 2) = <<"0", "x">>
  THEN hexToPercent(SubSeq(h, 3, Len(h))) ELSE NA
PercentTexts == {NatToBase(n, 10) \o <<"%">> : n \in 0..100}

\* The reports printed so far
ReportMsgs == {"ReportJSON", "ReportText"}
Reports == {stdout[i].arg : i \in {j \in 1..Len(stdout) : stdout[j].msg \in ReportMsgs}}
Printed(m) == \E i \in 1..Len(stdout) : stdout[i].msg = m

\* The status step's two invocations: the sensor list at k, the PWM read at k-1
StatusAt(k) == k \in 2..Len(log) /\ IsSensorList(log[k])
PwmMissing(c) == c.err \/ Len(Fields(c.out)) < 7

\* The rows of a sensor listing: its non-blank lines of at least three fields
IsRowLine(line) == TrimSpace(line) # <<>> /\ Len(Split(line, "|")) >= 3
RowOf(line) ==
  LET parts == Split(line, "|")
      upper == ToUpper(line)
      fan == Contains(upper, S_FAN) /\ ~Contains(upper, S_POWER)
  IN [name |-> TrimSpace(parts[1]),
      val |-> TrimSpace(parts[2]),
      unit |-> TrimSpace(parts[3]),
      hasFan |-> Contains(upper, S_FAN),
      isFan |-> fan,
      isThermal |-> ~fan /\ (Contains(upper, S_TEMP) \/ Contains(upper, S_AIRFLOW))]
RECURSIVE RowsOfLines(_)
RowsOfLines(ls) ==
  IF ls = <<>> THEN <<>>
  ELSE (IF IsRowLine(Head(ls)) THEN <<RowOf(Head(ls))>> ELSE <<>>) \o RowsOfLines(Tail(ls))
Rows(text) == RowsOfLines(Split(text, "\n"))

\* A value as the thermal table shows it, and the unit
Normalised(val) ==
  LET valFloat == ParseFloat(val)
  IN IF valFloat.ok THEN FormatFloat0(valFloat) ELSE val
ShownUnit(unit) == IF unit = S_degreesC THEN S_celsius ELSE unit
ZeroCelsius(r) == Normalised(r.val) = <<"0">> /\ ShownUnit(r.unit) = S_celsius
Shown(r) == [name |-> r.name, value |-> Normalised(r.val) \o <<" ">> \o ShownUnit(r.unit)]

ShownAll(rows) == [i \in 1..Len(rows) |-> Shown(rows[i])]

\* ------------------------------------------------------------------------
\* Properties
\* ------------------------------------------------------------------------

Captured(n) == MapGet(originalPWMs, n)
ValidCapture(n) == Captured(n) # <<>> /\ Captured(n) # NA
\* The writes issued after the status step
RestoreWrites ==
  {i \in 1..Len(log) : IsWrite(log[i]) /\ \E k \in 1..(i - 1) : IsSensorList(log[k])}
TestrunCompleted == IsCmd(S_testrun) /\ Exited /\ exitCode = 0

\* C1: when testrun has run to completion, every fan whose captured PWM was a
\* valid (non-"N/A") reading has been set back, by an individual write for its
\* own id, to exactly the captured percentage, and no restore write was issued
\* for a fan whose captured PWM was "N/A" or absent.
C1_RestoresEveryValidCapture ==
  TestrunCompleted =>
    \A n \in Range(fanNames) :
      IF ValidCapture(n)
      THEN \E i \in RestoreWrites :
             WriteId(log[i]) = fanIDs[n] /\ ByteAsPercent(WriteSpeed(log[i])) = Captured(n)
      ELSE \A i \in RestoreWrites : WriteId(log[i]) # fanIDs[n]

\* C2: every report status prints holds exactly the six known fans in the fixed
\* order; a PWM missing from the raw read and an RPM missing from the sensor
\* list are shown as "N/A", and no value is left empty.
C2_SixFansFixedOrder ==
  /\ \A r \in Reports :
       /\ Len(r.fans) = 6
       /\ [i \in 1..6 |-> r.fans[i].name] =
            <<SystemFan1, SystemFan2, SystemFan3, SystemFan4, CPUFan1, CPUFan2>>
       /\ \A i \in 1..6 : r.fans[i].rpm # <<>> /\ r.fans[i].pwm # <<>>
  /\ \A k \in 1..Len(log) :
       StatusAt(k) /\ ~log[k].err =>
         \E r \in Reports :
           \A i \in 1..6 :
             /\ PwmMissing(log[k - 1]) => r.fans[i].pwm = NA
             /\ ~Contains(log[k].out, r.fans[i].name) => r.fans[i].rpm = NA

\* C2 witness: a report for a listing that names a fan outside the six and one
\* of the six, with the PWM read short
C2_Witness ==
  /\ IsCmd(S_status) /\ Exited /\ Len(log) = 2
  /\ ~log[1].err /\ Len(Fields(log[1].out)) = 6
  /\ ~log[2].err /\ Contains(log[2].out, <<"P","S","U"," ","F","a","n">>)
  /\ Contains(log[2].out, SystemFan1)
  /\ \E r \in Reports : r.fans[1].rpm # NA /\ r.fans[6].rpm = NA /\ r.fans[1].pwm = NA

\* C3: a write is only ever issued with a speed byte 0x00..0x64; a set call
\* whose speed text is not an integer in [0,100] prints the range error,
\* invokes nothing and does not end the process with a failure code (the
\* process fails only after a failed invocation).
C3_WritesOnlyInRange ==
  /\ \A i \in 1..Len(log) :
       IsWrite(log[i]) => ByteAsPercent(WriteSpeed(log[i])) \in PercentTexts
  /\ (IsCmd(S_set) /\ Len(args) >= 3 /\ args[3] \notin SpeedTexts /\ Exited) =>
       log = <<>> /\ stdout = <<Msg("SetBadSpeed", <<>>)>> /\ exitCode = 0
  /\ (IsCmd(S_testrun) /\ pc \in {"step4", "exit"}) =>
       \A id \in (DOMAIN savedSpeeds) \ pending :
         savedSpeeds[id] \notin SpeedTexts =>
           /\ \A i \in RestoreWrites : WriteId(log[i]) # id
           /\ Printed("SetBadSpeed")
  /\ (toolPresent /\ Exited /\ exitCode = 1) => log # <<>> /\ log[Len(log)].err

\* C3 witness: set all 150 has been rejected
C3_Witness ==
  /\ IsCmd(S_set) /\ Exited
  /\ Len(args) = 3 /\ args[2] = S_all /\ args[3] = <<"1","5","0">>
  /\ stdout = <<Msg("SetBadSpeed", <<>>)>> /\ log = <<>>

\* C4: get issues the raw PWM read exactly when its id is an integer in [1,6];
\* for any other id it prints a validation error and invokes nothing.
C4_GetValidatesId ==
  (IsCmd(S_get) /\ Len(args) >= 2 /\ Exited) =>
    IF args[2] \in GetIdTexts
    THEN Len(log) = 1 /\ IsRead(log[1])
    ELSE /\ log = <<>>
         /\ stdout \in {<<Msg("GetUseStatus", <<>>)>>, <<Msg("GetBadId", <<>>)>>}
         /\ exitCode = 0

\* C4 witness: get 07 has been rejected
C4_Witness ==
  /\ IsCmd(S_get) /\ Exited
  /\ Len(args) = 2 /\ args[2] = <<"0","7">>
  /\ stdout = <<Msg("GetBadId", <<>>)>> /\ log = <<>>

SetIssued == IsCmd(S_set) /\ Len(args) >= 3 /\ args[3] \in SpeedTexts /\ Exited
SpeedByte(text) == <<"0", "x">> \o NatToBase(CHOOSE n \in 0..100 : text \in IntegerTexts(n, n), 16)

\* C5, as claimed: for a valid speed, "all" (any case), "0" and "00" are written
\* with id "00", a single-digit id d with id "0d", any other id unchanged.
C5_IdNormalisedAsClaimed ==
  SetIssued =>
    /\ Len(log) = 1
    /\ log[1].cmd =
         RawWriteCmd(IF args[2] \in BroadcastIds THEN S_00
                     ELSE IF Len(args[2]) = 1 /\ args[2][1] \in Range(Digits)
                          THEN <<"0">> \o args[2]
                          ELSE args[2],
                     SpeedByte(args[3]))

\* C5, amended: for a valid speed, "all" (any case), "0" and "00" are written
\* with id "00", an id of exactly one byte c, digit or not, with id "0c", any
\* other id unchanged.
C5_IdNormalised ==
  SetIssued =>
    /\ Len(log) = 1
    /\ log[1].cmd =
         RawWriteCmd(IF args[2] \in BroadcastIds THEN S_00
                     ELSE IF ByteLen(args[2]) = 1 THEN <<"0">> \o args[2]
                          ELSE args[2],
                     SpeedByte(args[3]))

\* C5 witness: set 1 45 has issued the write with id "01" and byte 0x2d
C5_Witness ==
  /\ IsCmd(S_set) /\ Exited
  /\ args = <<S_set, <<"1">>, <<"4","5">>>>
  /\ Len(log) = 1 /\ WriteId(log[1]) = S_01 /\ WriteSpeed(log[1]) = <<"0","x","2","d">>

\* An invocation failed inside get or set: a write, the read of the get
\* subcommand, or the read of testrun's get step (its third invocation)
FailedInGetOrSet ==
  \E i \in 1..Len(log) :
    /\ log[i].err
    /\ \/ IsWrite(log[i])
       \/ IsRead(log[i]) /\ (IsCmd(S_get) \/ (IsCmd(S_testrun) /\ i = 3))

\* C6: the process exits with code 1 exactly when the tool is missing at
\* startup or an invocation failed inside get or set; in every other case it
\* has printed a message and exits with code 0.
C6_ExitCodes ==
  Exited =>
    /\ stdout # <<>>
    /\ exitCode \in {0, 1}
    /\ exitCode = 1 <=> (~toolPresent \/ FailedInGetOrSet)

\* C6 witness: status has exited with code 0 although both its PWM read and
\* its sensor list failed
C6_Witness ==
  /\ IsCmd(S_status) /\ Exited /\ exitCode = 0
  /\ Len(log) = 2 /\ log[1].err /\ log[2].err

\* C7: if the sensor list fails, status prints the invocation error and no
\* report, whatever the PWM read returned; if only the PWM read fails or is
\* shorter than 7 tokens, status prints the full report with the PWM of all six
\* fans "N/A" and the RPM and thermal values the sensor list alone gives.
C7_SensorFailureNoReport ==
  \A k \in 1..Len(log) :
    StatusAt(k) =>
      IF log[k].err
      THEN Reports = {} /\ Printed("SensorError")
      ELSE PwmMissing(log[k - 1]) =>
             LET parsed == parseSensors(log[k].out)
             IN /\ ~Printed("SensorError")
                /\ \E r \in Reports :
                     /\ Len(r.fans) = 6
                     /\ \A i \in 1..6 : r.fans[i].pwm = NA
                     /\ \A i \in 1..6 :
                          r.fans[i].rpm =
                            (IF fanNames[i] \in DOMAIN parsed.rpmMap
                             THEN parsed.rpmMap[fanNames[i]] ELSE NA)
                     /\ r.thermals = parsed.thermals

\* C7 witness: the PWM read failed, the sensor list answered, and the report
\* shows an RPM and a thermal value
C7_Witness ==
  /\ IsCmd(S_status) /\ Exited /\ Len(log) = 2
  /\ log[1].err /\ ~log[2].err
  /\ \E r \in Reports :
       /\ r.fans[1].pwm = NA /\ r.fans[1].rpm # NA
       /\ r.thermals # <<>>

\* C8: a row whose value is the literal "na" never contributes a reading: a fan
\* shows an RPM only if a fan row of its name has another value, and the
\* thermals hold exactly the readings of the thermal rows whose value is not
\* "na" (less the zero-Celsius ones).
C8_NaNeverContributes ==
  \A k \in 1..Len(log) :
    (StatusAt(k) /\ ~log[k].err) =>
      LET rows == Rows(log[k].out)
      IN \E r \in Reports :
           /\ \A i \in 1..6 :
                r.fans[i].rpm # NA =>
                  \E j \in 1..Len(rows) :
                    /\ rows[j].name = fanNames[i]
                    /\ rows[j].isFan
                    /\ rows[j].val # S_na
                    /\ r.fans[i].rpm = rows[j].val \o S_RPM
           /\ r.thermals =
                ShownAll(SelectSeq(rows,
                                   LAMBDA row : row.isThermal /\ row.val # S_na
                                                /\ ~ZeroCelsius(row)))

\* C9, as claimed: a thermal row is dropped exactly when its value normalises
\* to "0" and its unit is Celsius; every other thermal row is retained, in
\* encounter order, as "<normalised value> <unit>".
C9_DroppedExactlyZeroCelsius ==
  \A k \in 1..Len(log) :
    (StatusAt(k) /\ ~log[k].err) =>
      \E r \in Reports :
        r.thermals =
          ShownAll(SelectSeq(Rows(log[k].out),
                             LAMBDA row : row.isThermal /\ ~ZeroCelsius(row)))

\* C9, amended: a thermal row is dropped exactly when its value is "na" on a
\* line without FAN, or its value normalises to "0" and its unit is Celsius;
\* every other thermal row is retained, in encounter order, as
\* "<normalised value> <unit>".
C9_DroppedNaOrZeroCelsius ==
  \A k \in 1..Len(log) :
    (StatusAt(k) /\ ~log[k].err) =>
      \E r \in Reports :
        r.thermals =
          ShownAll(SelectSeq(Rows(log[k].out),
                             LAMBDA row : /\ row.isThermal
                                          /\ ~(row.val = S_na /\ ~row.hasFan)
                                          /\ ~ZeroCelsius(row)))

\* C9 witness: of the readings 0.50000000000000001 in Celsius (the float64
\* 0.5, shown as "0") and 2.5000000000000001 in CFM (the float64 2.5, shown as
\* "2"), the report keeps only "2 CFM"
C9_Witness ==
  /\ IsCmd(S_status) /\ Exited /\ Len(log) = 2 /\ ~log[2].err
  /\ Len(Rows(log[2].out)) = 2
  /\ \E i \in 1..2 : Rows(log[2].out)[i].val = <<"0",".","5","0","0","0","0","0","0","0","0","0","0","0","0","0","0","0","1">>
                     /\ Rows(log[2].out)[i].unit = S_celsius
  /\ \E i \in 1..2 : Rows(log[2].out)[i].val = <<"2",".","5","0","0","0","0","0","0","0","0","0","0","0","0","0","0","1">>
                     /\ Rows(log[2].out)[i].unit = <<"C","F","M">>
  /\ \E r \in Reports :
       Len(r.thermals) = 1 /\ r.thermals[1].value = <<"2"," ","C","F","M">>

WriteIds == {log[i].cmd[5] : i \in RestoreWrites}

\* C10: testrun invokes the tool in a fixed order - the capture read, the
\* broadcast write of 40%, the read of get 01, the read and the sensor list of
\* status, then individual restore writes - so no restore write precedes the
\* end of the status step; a failed invocation inside a set or get step ends
\* the process at once with code 1; a failed capture, a failed or short read
\* and a failed sensor list do not halt it: a run that ends with code 0 has
\* made the restore call of every saved fan, which is a write when the saved
\* speed is in range and the range error otherwise.
C10_TestrunOrder ==
  IsCmd(S_testrun) =>
    /\ \A i \in 1..Len(log) :
         /\ i \in {1, 3, 4} => IsRead(log[i])
         /\ i = 2 => log[i].cmd = RawWriteCmd(S_00, <<"0","x","2","8">>)
         /\ i = 5 => IsSensorList(log[i])
         /\ i >= 6 => /\ IsWrite(log[i])
                      /\ WriteId(log[i]) \in {fanIDs[n] : n \in Range(fanNames)}
                      /\ \A j \in 6..(i - 1) : WriteId(log[j]) # WriteId(log[i])
         /\ (log[i].err /\ (i = 2 \/ i = 3 \/ i >= 6)) =>
              i = Len(log) /\ Exited /\ exitCode = 1
    /\ ~Exited =>
         pc = CASE Len(log) = 0 -> "start"
                [] Len(log) = 1 -> "step1"
                [] Len(log) = 2 -> "step2"
                [] Len(log) = 3 -> "step3"
                [] Len(log) = 4 -> "step3s"
                [] OTHER -> "step4"
    /\ (Exited /\ exitCode = 1) => Len(log) \notin {0, 1, 4, 5} /\ log[Len(log)].err
    /\ (Exited /\ exitCode = 0) =>
         /\ Len(log) >= 5
         /\ stdout[Len(stdout)] = Msg("TestComplete", <<>>)
         /\ WriteIds = {id \in DOMAIN savedSpeeds : savedSpeeds[id] \in SpeedTexts}
         /\ Cardinality({i \in 1..Len(stdout) : stdout[i].msg = "SetBadSpeed"}) =
              Cardinality({id \in DOMAIN savedSpeeds : savedSpeeds[id] \notin SpeedTexts})

\* C10 witness: the sensor list failed and get 01 met an empty answer, yet
\* the run went on, issued two restore writes and completed
C10_Witness ==
  /\ IsCmd(S_testrun) /\ Exited /\ exitCode = 0
  /\ Len(log) >= 7
  /\ log[5].err
  /\ Printed("GetBadFormat") /\ Printed("SensorError")
  /\ stdout[Len(stdout)] = Msg("TestComplete", <<>>)

====
